---- MODULE Spec2Model ----
(***************************************************************************)
(* Polo-shirt pattern generator (src/script.py).                           *)
(*                                                                         *)
(* Lengths are fixed-point integers: one inch is TicksPerInch ticks.  The  *)
(* Python floats of the script are modelled by this fixed-point            *)
(* arithmetic: a product or quotient is rounded to the nearest tick        *)
(* (RoundDiv, sign-symmetric like IEEE rounding), math.sqrt is the         *)
(* nearest-integer square root.  Measurements are records keyed by the     *)
(* script's dictionary keys; a missing key is a key outside DOMAIN.        *)
(***************************************************************************)
EXTENDS Integers, Sequences, FiniteSets, TLC

(* ---------------------------------------------------------------- bounds *)
\* how many times generate_pattern_visuals is called on the same dict
MaxRuns == 2
\* customised shoulder width / slope values: 1..MaxCustom inches
MaxCustom == 2
\* customised cuff values: bicep + 0..MaxCuffOver inches
MaxCuffOver == 1
\* how many new values one prompt session accepts
MaxAccepted == 1
\* control point coordinates of the curve helpers: 0..MaxCoord inches
MaxCoord == 2
\* the curve helpers are tried with 1..MaxSamples intervals
MaxSamples == 3

(* ------------------------------------------------------------ arithmetic *)
\* 1/8 in (the 0.375 seam offset) subdivided by 25 (the 0.98 and 0.05 factors)
TicksPerInch == 8 * 25

\* a length given in hundredths of an inch, in ticks
H(c) == (c * TicksPerInch) \div 100

\* a / b rounded to the nearest integer, halves away from zero (b > 0)
RoundDiv(a, b) ==
    IF a >= 0 THEN (2 * a + b) \div (2 * b)
    ELSE -((2 * (-a) + b) \div (2 * b))

\* x * (num/den): the product of a length and a decimal literal of the script
Times(x, num, den) == RoundDiv(x * num, den)

Max(a, b) == IF a >= b THEN a ELSE b
Min(a, b) == IF a <= b THEN a ELSE b

RECURSIVE ISqrtB(_, _, _)
ISqrtB(x, lo, hi) ==
    IF lo >= hi THEN lo
    ELSE LET mid == (lo + hi + 1) \div 2
         IN  IF mid * mid <= x THEN ISqrtB(x, mid, hi) ELSE ISqrtB(x, lo, mid - 1)

\* math.sqrt on a non-negative argument, rounded to the nearest tick
Sqrt(x) ==
    LET r == ISqrtB(x, 0, 46340)
    IN  IF x - r * r > r THEN r + 1 ELSE r

(* ----------------------------------------------------- helper functions *)
\* dist(p1, p2), script.py 15-21
dist(p1, p2) ==
    Sqrt((p1[1] - p2[1]) * (p1[1] - p2[1]) + (p1[2] - p2[2]) * (p1[2] - p2[2]))

\* get_path_length(points_list), script.py 23-32
RECURSIVE PathFrom(_, _)
PathFrom(points_list, i) ==
    IF i >= Len(points_list) THEN 0
    ELSE dist(points_list[i], points_list[i + 1]) + PathFrom(points_list, i + 1)

get_path_length(points_list) == PathFrom(points_list, 1)

\* quadratic_bezier(p0, p1, p2, t) with t = i / n, script.py 34-42
quadratic_bezier(p0, p1, p2, i, n) ==
    << RoundDiv((n - i) * (n - i) * p0[1] + 2 * (n - i) * i * p1[1] + i * i * p2[1], n * n),
       RoundDiv((n - i) * (n - i) * p0[2] + 2 * (n - i) * i * p1[2] + i * i * p2[2], n * n) >>

\* the default num_points of generate_bezier_points
NUM_POINTS == 30

\* the sampling with range(num_points) for range(num_points + 1)
generate_bezier_points_open(p0, p1, p2, num_points) ==
    [k \in 1..num_points |-> quadratic_bezier(p0, p1, p2, k - 1, num_points)]

\* generate_bezier_points(p0, p1, p2, num_points), script.py 44-50
generate_bezier_points(p0, p1, p2, num_points) ==
    [k \in 1..(num_points + 1) |-> quadratic_bezier(p0, p1, p2, k - 1, num_points)]

\* the Python slice s[1:-1]
Interior(s) == SubSeq(s, 2, Len(s) - 1)

\* the default seam offset 0.375 in
SEAM_OFFSET == (375 * TicksPerInch) \div 1000

\* draw_straight_seam_allowance(ax, p1, p2, offset), script.py 73-86: the
\* lines it plots (none for a zero-length edge).  offset * n[k] with
\* n = (-v[1]/length, v[0]/length) is computed as offset * (-v[1]) / length.
draw_straight_seam_allowance(p1, p2, offset) ==
    LET v == <<p2[1] - p1[1], p2[2] - p1[2]>>
        length == Sqrt(v[1] * v[1] + v[2] * v[2])
    IN  IF length = 0 THEN << >>
        ELSE LET ox == RoundDiv(offset * (-v[2]), length)
                 oy == RoundDiv(offset * v[1], length)
             IN  << [p1 |-> p1, p2 |-> p2,
                     q1 |-> <<p1[1] + ox, p1[2] + oy>>,
                     q2 |-> <<p2[1] + ox, p2[2] + oy>>] >>

(* ---------------------------------------------------------- measurements *)
KEYS ==
    { "half_chest_flat", "garment_length", "neck_width_half", "front_neck_drop",
      "back_neck_drop", "shoulder_width", "shoulder_slope", "armhole_depth",
      "sleeve_length_outer", "sleeve_bicep_flat", "sleeve_cuff_flat",
      "collar_height_flat", "placket_width", "placket_length" }

\* PREDEFINED_MEASUREMENTS, script.py 163-185 (inches, written in hundredths)
PREDEFINED_MEASUREMENTS ==
    [ S |-> [ half_chest_flat |-> H(1800), garment_length |-> H(2450),
              neck_width_half |-> H(300), front_neck_drop |-> H(275),
              back_neck_drop |-> H(75), shoulder_width |-> H(450),
              shoulder_slope |-> H(150), armhole_depth |-> H(800),
              sleeve_length_outer |-> H(700), sleeve_bicep_flat |-> H(700),
              sleeve_cuff_flat |-> H(600), collar_height_flat |-> H(300),
              placket_width |-> H(150), placket_length |-> H(500) ],
      M |-> [ half_chest_flat |-> H(2000), garment_length |-> H(2550),
              neck_width_half |-> H(325), front_neck_drop |-> H(300),
              back_neck_drop |-> H(100), shoulder_width |-> H(500),
              shoulder_slope |-> H(175), armhole_depth |-> H(900),
              sleeve_length_outer |-> H(750), sleeve_bicep_flat |-> H(750),
              sleeve_cuff_flat |-> H(650), collar_height_flat |-> H(300),
              placket_width |-> H(150), placket_length |-> H(550) ],
      L |-> [ half_chest_flat |-> H(2200), garment_length |-> H(2650),
              neck_width_half |-> H(350), front_neck_drop |-> H(325),
              back_neck_drop |-> H(100), shoulder_width |-> H(550),
              shoulder_slope |-> H(200), armhole_depth |-> H(950),
              sleeve_length_outer |-> H(800), sleeve_bicep_flat |-> H(800),
              sleeve_cuff_flat |-> H(700), collar_height_flat |-> H(325),
              placket_width |-> H(150), placket_length |-> H(600) ] ]

SIZES == DOMAIN PREDEFINED_MEASUREMENTS

\* d[key] = value on a dict, adding the key when it is absent
SetItem(d, key, value) ==
    [k \in DOMAIN d \cup {key} |-> IF k = key THEN value ELSE d[k]]

\* the dict d without key
DelItem(d, key) == [k \in DOMAIN d \ {key} |-> d[k]]

(* The measurement sets handed to generate_pattern_visuals. *)
CustomValues == { H(100 * k) : k \in 1..MaxCustom }

\* a size's defaults with shoulder width, shoulder slope and cuff customised
Customised(size) ==
    LET base == PREDEFINED_MEASUREMENTS[size]
    IN  { [base EXCEPT !.shoulder_width = w, !.shoulder_slope = s, !.sleeve_cuff_flat = c] :
            w \in {base.shoulder_width} \cup CustomValues,
            s \in {base.shoulder_slope} \cup CustomValues,
            c \in {base.sleeve_cuff_flat}
                  \cup { base.sleeve_bicep_flat + H(100 * k) : k \in 0..MaxCuffOver } }

\* the same set, or the set carrying a collar length from somewhere else
WithStale(meas) == { meas, SetItem(meas, "collar_length_calculated", H(100)) }

\* a size's defaults with one key missing, zero or negative
Defective(size) ==
    LET base == PREDEFINED_MEASUREMENTS[size]
    IN  { DelItem(base, k) : k \in KEYS }
        \cup { [base EXCEPT ![k] = v] : k \in KEYS, v \in {0, -H(100)} }

\* a size's defaults with a placket exactly as long or as wide as the button
\* threshold of script.py 590
SmallPlacket(size) ==
    LET base == PREDEFINED_MEASUREMENTS[size]
    IN  { [base EXCEPT !.placket_length = H(100)], [base EXCEPT !.placket_width = H(20)] }

Inputs ==
    UNION { UNION { WithStale(meas) : meas \in Customised(size) } \cup Defective(size)
            \cup SmallPlacket(size) :
            size \in SIZES }

\* what the spec calls an invalid measurement set
Invalid(meas) ==
    \/ \E k \in KEYS : k \notin DOMAIN meas
    \/ \E k \in DOMAIN meas \cap KEYS : meas[k] <= 0

(* ------------------------------------------------------------------ state *)
VARIABLES
    m,                            \* the measurement dict shared with the caller
    m0,                           \* the dict as it was when the current call began
    pc,                           \* position in generate_pattern_visuals
    run,                          \* which call on this dict is in progress
    err,                          \* the exception that ended the call, or "none"
    radicand,                     \* shoulder_width**2 - shoulder_slope**2 at line 328
    dx_shoulder,
    back, front, sleeve,          \* drafted polygon pieces
    collar, placket, interfacing, \* drafted rectangular pieces
    half_back_neckline_length,
    half_front_neckline_length,
    stage,                        \* per drawn piece: how far it has got
    pages,                        \* the PNG pages saved so far
    history,                      \* what each completed call produced
    drawn,                        \* the pieces handed to draw_pattern_piece_with_details
    log,                          \* the records the logger has emitted
    printed,                      \* what output_product_details printed
    prompt,                       \* where get_user_measurements stands, and what it holds
    geo                           \* a curve helper called on its own: arguments and results

vars == << m, m0, pc, run, err, radicand, dx_shoulder, back, front, sleeve, collar,
           placket, interfacing, half_back_neckline_length,
           half_front_neckline_length, stage, pages, history, drawn, log,
           printed, prompt, geo >>

\* the state outside generate_pattern_visuals
aside == << printed, prompt, geo >>

\* the ten axes a call draws on, by piece title
PIECES ==
    { "1. Front Body", "2. Back Body", "3. Sleeve (Piece 1)", "4. Sleeve (Piece 2)",
      "5. Collar (Piece 1)", "6. Collar (Piece 2)", "7. Placket (Button Side)",
      "8. Placket (Buttonhole Side)", "9. Collar Interfacing", "10. Placket Interfacing" }

NoPolygon == [pts |-> << >>, edges |-> << >>, seams |-> << >>, extra |-> << >>]
NoRect == [rect |-> << >>, seams |-> << >>, extra |-> << >>]

\* script.py 323
base_offset_x == H(100)
base_offset_y == H(100)

straight(a, b) == [kind |-> "straight", pts |-> <<a, b>>]
bezier(a, c, b) == [kind |-> "bezier", pts |-> <<a, c, b>>]
Plot(p, ox, oy) == <<p[1] + ox, p[2] + oy>>
MirrorX(p) == <<-p[1], p[2]>>

\* the loops 363-372, 434-443, 527-532: the straight seam lines of an edge list,
\* drawn with the piece's plot offset
RECURSIVE StraightSeams(_, _, _, _)
StraightSeams(edges, i, ox, oy) ==
    IF i > Len(edges) THEN << >>
    ELSE (IF edges[i].kind = "straight"
          THEN draw_straight_seam_allowance(Plot(edges[i].pts[1], ox, oy),
                                            Plot(edges[i].pts[2], ox, oy), SEAM_OFFSET)
          ELSE << >>)
         \o StraightSeams(edges, i + 1, ox, oy)

\* the four calls 556-559 and 599-602 around a rectangle at the base offset
RectSeams(w, h) ==
    LET x == base_offset_x
        y == base_offset_y
    IN  draw_straight_seam_allowance(<<x, y>>, <<x + w, y>>, SEAM_OFFSET)
        \o draw_straight_seam_allowance(<<x + w, y>>, <<x + w, y + h>>, SEAM_OFFSET)
        \o draw_straight_seam_allowance(<<x + w, y + h>>, <<x, y + h>>, SEAM_OFFSET)
        \o draw_straight_seam_allowance(<<x, y + h>>, <<x, y>>, SEAM_OFFSET)

(* ---------------------------------------------- back body, script.py 336-362 *)
p1_b == <<0, 0>>
p2_b == <<RoundDiv(m.half_chest_flat, 2), 0>>
p3_b == <<RoundDiv(m.half_chest_flat, 2), m.garment_length - m.armhole_depth>>
p4_b == <<m.neck_width_half + dx_shoulder, m.garment_length - m.shoulder_slope>>
p5_b == <<m.neck_width_half, m.garment_length>>
p6_b == <<0, m.garment_length - m.back_neck_drop>>
p_neck_ctrl_b ==
    << Times(m.neck_width_half, 5, 10),
       RoundDiv(p6_b[2] + p5_b[2], 2) + Times(m.back_neck_drop, 2, 10) >>
p_arm_ctrl_b ==
    << RoundDiv(p4_b[1] + p3_b[1], 2)
         + Times(RoundDiv(m.half_chest_flat, 2) - (m.neck_width_half + dx_shoulder), 2, 10),
       RoundDiv(p4_b[2] + p3_b[2], 2) - Times(m.armhole_depth, 1, 10) >>

back_pts_local_smooth ==
    <<p1_b, p2_b, p3_b>>
    \o Interior(generate_bezier_points(p3_b, p_arm_ctrl_b, p4_b, NUM_POINTS))
    \o <<p4_b, p5_b>>
    \o Interior(generate_bezier_points(p5_b, p_neck_ctrl_b, p6_b, NUM_POINTS))
    \o <<p6_b>>

back_edges ==
    << straight(p1_b, p2_b),
       straight(p2_b, p3_b),
       bezier(p3_b, p_arm_ctrl_b, p4_b),
       straight(p4_b, p5_b),
       bezier(p5_b, p_neck_ctrl_b, p6_b) >>

\* the back neck measured along its chord, the control point left out
back_neck_chord == <<p5_b, p6_b>>

\* script.py 391
back_neck_path == <<p5_b, p_neck_ctrl_b, p6_b>>

(* --------------------------------------------- front body, script.py 402-433 *)
p_cf_neck == <<0, m.garment_length - m.front_neck_drop>>
p_hps_r == <<m.neck_width_half, m.garment_length>>
p_st_r == <<m.neck_width_half + dx_shoulder, m.garment_length - m.shoulder_slope>>
p_au_r == <<RoundDiv(m.half_chest_flat, 2), m.garment_length - m.armhole_depth>>
p_sh_r == <<RoundDiv(m.half_chest_flat, 2), 0>>
p_fn_ctrl_r ==
    << Times(m.neck_width_half, 4, 10),
       p_cf_neck[2] + Times(p_hps_r[2] - p_cf_neck[2], 3, 10) >>
\* the front armhole control point (script.py 408-409)
p_fa_ctrl_r ==
    << RoundDiv(p_st_r[1] + p_au_r[1], 2)
         + Times(RoundDiv(m.half_chest_flat, 2) - (m.neck_width_half + dx_shoulder), 15, 100),
       RoundDiv(p_st_r[2] + p_au_r[2], 2) - Times(m.armhole_depth, 5, 100) >>

\* the left armhole's control point, script.py 415
p_fa_ctrl_l_unmirrored == p_fa_ctrl_r
p_fa_ctrl_l == MirrorX(p_fa_ctrl_r)

\* script.py 411-418
front_polygon_pts_smooth ==
    <<p_cf_neck>>
    \o Interior(generate_bezier_points(p_cf_neck, p_fn_ctrl_r, p_hps_r, NUM_POINTS))
    \o <<p_hps_r, p_st_r>>
    \o Interior(generate_bezier_points(p_st_r, p_fa_ctrl_r, p_au_r, NUM_POINTS))
    \o <<p_au_r, p_sh_r, MirrorX(p_sh_r), MirrorX(p_au_r)>>
    \o Interior(generate_bezier_points(MirrorX(p_au_r), p_fa_ctrl_l,
                                       MirrorX(p_st_r), NUM_POINTS))
    \o <<MirrorX(p_st_r), MirrorX(p_hps_r)>>
    \o Interior(generate_bezier_points(MirrorX(p_hps_r), MirrorX(p_fn_ctrl_r),
                                       p_cf_neck, NUM_POINTS))

front_plot_offset_x == base_offset_x + RoundDiv(m.half_chest_flat, 2)

front_edges ==
    << bezier(p_cf_neck, p_fn_ctrl_r, p_hps_r),
       straight(p_hps_r, p_st_r),
       bezier(p_st_r, p_fa_ctrl_r, p_au_r),
       straight(p_au_r, p_sh_r),
       straight(p_sh_r, MirrorX(p_sh_r)),
       straight(MirrorX(p_sh_r), MirrorX(p_au_r)),
       bezier(MirrorX(p_au_r), MirrorX(p_fa_ctrl_r), MirrorX(p_st_r)),
       straight(MirrorX(p_st_r), MirrorX(p_hps_r)),
       bezier(MirrorX(p_hps_r), MirrorX(p_fn_ctrl_r), p_cf_neck) >>

front_neck_path_right == <<p_cf_neck, p_fn_ctrl_r, p_hps_r>>

\* script.py 461-465: the placket indicator on the front body
placket_area_indicator ==
    << p_cf_neck[1] + front_plot_offset_x - RoundDiv(m.placket_width, 2),
       p_cf_neck[2] + base_offset_y - m.placket_length,
       m.placket_width, m.placket_length >>

(* ------------------------------------------------- sleeve, script.py 496-526 *)
sL == m.sleeve_length_outer
sWB == m.sleeve_bicep_flat
\* the cuff width taken from the dict as it is
sWC_unclamped == m.sleeve_cuff_flat

\* script.py 499-500
sWC == IF m.sleeve_cuff_flat > sWB THEN sWB ELSE m.sleeve_cuff_flat
cap_height == Times(sL, 25, 100)
underarm_length == sL - cap_height
p1_cuff_left == <<base_offset_x + RoundDiv(sWB - sWC, 2), base_offset_y>>
p2_cuff_right == <<base_offset_x + RoundDiv(sWB - sWC, 2) + sWC, base_offset_y>>
p5_underarm_left == <<base_offset_x, base_offset_y + underarm_length>>
p3_underarm_right == <<base_offset_x + sWB, base_offset_y + underarm_length>>
cap_peak == <<base_offset_x + RoundDiv(sWB, 2), base_offset_y + sL>>
p_carrier_left ==
    << base_offset_x + Times(sWB, 1, 10),
       base_offset_y + underarm_length + Times(cap_height, 5, 10) >>
p_carrier_right ==
    << base_offset_x + Times(sWB, 9, 10),
       base_offset_y + underarm_length + Times(cap_height, 5, 10) >>

sleeve_pts_smooth ==
    <<p1_cuff_left, p2_cuff_right, p3_underarm_right>>
    \o Interior(generate_bezier_points(p3_underarm_right, p_carrier_right, cap_peak, NUM_POINTS))
    \o <<cap_peak>>
    \o Interior(generate_bezier_points(cap_peak, p_carrier_left, p5_underarm_left, NUM_POINTS))
    \o <<p5_underarm_left>>

\* the sleeve's edge list with its last edge closing on the wrong cuff corner
sleeve_edges_misclosed ==
    << straight(p1_cuff_left, p2_cuff_right),
       straight(p2_cuff_right, p3_underarm_right),
       bezier(p3_underarm_right, p_carrier_right, cap_peak),
       bezier(cap_peak, p_carrier_left, p5_underarm_left),
       straight(p5_underarm_left, p2_cuff_right) >>

\* script.py 520-526
sleeve_edges ==
    << straight(p1_cuff_left, p2_cuff_right),
       straight(p2_cuff_right, p3_underarm_right),
       bezier(p3_underarm_right, p_carrier_right, cap_peak),
       bezier(cap_peak, p_carrier_left, p5_underarm_left),
       straight(p5_underarm_left, p1_cuff_left) >>

(* ---------------------------------- generate_pattern_visuals, script.py 317-637 *)
\* a record handed to the logger configured at script.py 8-10
Info(msg) == [level |-> "INFO", msg |-> msg]
Error(msg) == [level |-> "ERROR", msg |-> msg]

\* the matplotlib patches a piece is made of
Polygon(pts) == [kind |-> "Polygon", geom |-> pts]
Rectangle(xywh) == [kind |-> "Rectangle", geom |-> xywh]
Circle(xyr) == [kind |-> "Circle", geom |-> xyr]
Circles(cs) == [i \in 1..Len(cs) |-> Circle(cs[i])]

\* script.py 385-386
fold_line_back ==
    << <<base_offset_x, p1_b[2] + base_offset_y>>, <<base_offset_x, p6_b[2] + base_offset_y>> >>

\* no prompt session and no helper call in progress
NoPrompt == [at |-> "idle"]
NoCurve == [at |-> "idle"]

Has(keys) == keys \subseteq DOMAIN m

\* a missing key: the KeyError is logged and re-raised at 635-637, and the call
\* ends where it stands
KeyError ==
    /\ pc' = "raised"
    /\ err' = "KeyError"
    /\ log' = Append(log, Error("Error in generate_pattern_visuals"))

\* the clamp firing on a slope equal to the width as well
ClampedSlopeInclusive(width, slope) ==
    IF width <= slope THEN Times(width, 98, 100) ELSE slope

\* the clamp with its comparison turned round
ClampedSlopeReversed(width, slope) ==
    IF width > slope THEN Times(width, 98, 100) ELSE slope

\* the clamp scaling the slope instead of the width
ClampedSlopeScaled(width, slope) ==
    IF width < slope THEN Times(slope, 98, 100) ELSE slope

\* script.py 326-327: the slope the rest of the call works with
ClampedSlope(width, slope) ==
    IF width < slope THEN Times(width, 98, 100) ELSE slope

outputs == << back, front, sleeve, collar, placket, interfacing,
              half_back_neckline_length, half_front_neckline_length, stage, pages,
              drawn >>

\* script.py 326-331
ClampShoulder ==
    /\ pc = "clamp"
    /\ IF Has({"shoulder_width", "shoulder_slope"})
       THEN
           /\ m' = [m EXCEPT !.shoulder_slope = ClampedSlope(m.shoulder_width, m.shoulder_slope)]
           /\ radicand' = m'.shoulder_width * m'.shoulder_width
                            - m'.shoulder_slope * m'.shoulder_slope
           /\ dx_shoulder' = Sqrt(Max(0, radicand'))
           /\ pc' = "back_boundary"
           /\ UNCHANGED outputs
           /\ err' = err
           /\ log' = Append(log, Info("Generating Page 1: Body Pieces"))
       ELSE KeyError /\ UNCHANGED << m, radicand, dx_shoulder, outputs >>
    /\ UNCHANGED << m0, run, history, aside >>

\* script.py 336-354: the back body's boundary
BackBoundary ==
    /\ pc = "back_boundary"
    /\ IF Has({"half_chest_flat", "garment_length", "armhole_depth", "neck_width_half", "shoulder_slope", "back_neck_drop"})
       THEN
           /\ back' = [back EXCEPT !.pts = back_pts_local_smooth]
           /\ stage' = [stage EXCEPT !["2. Back Body"] = "boundary"]
           /\ pc' = "back_annotate"
           /\ UNCHANGED << drawn, m, radicand, dx_shoulder, front, sleeve, collar, placket,
                           interfacing, half_back_neckline_length,
                           half_front_neckline_length, pages >>
           /\ err' = err
           /\ log' = log
       ELSE KeyError /\ UNCHANGED << m, radicand, dx_shoulder, outputs >>
    /\ UNCHANGED << m0, run, history, aside >>

\* script.py 356-389: seam allowances, grainline, notch, edge labels, fold line
BackAnnotate ==
    /\ pc = "back_annotate"
    /\ back' = [back EXCEPT !.edges = back_edges,
                            !.seams = StraightSeams(back_edges, 1, base_offset_x, base_offset_y)]
    /\ stage' = [stage EXCEPT !["2. Back Body"] = "annotated"]
    /\ pc' = "back_finalize"
    /\ UNCHANGED << aside, drawn, log, m, m0, run, err, history, radicand, dx_shoulder, front, sleeve, collar, placket,
                    interfacing, half_back_neckline_length,
                    half_front_neckline_length, pages >>

\* script.py 391-399: the half back neckline and the piece handed to the axes
BackFinalize ==
    /\ pc = "back_finalize"
    /\ half_back_neckline_length' = get_path_length(back_neck_path)
    /\ stage' = [stage EXCEPT !["2. Back Body"] = "finalized"]
    /\ pc' = "front_boundary"
    /\ drawn' = drawn \o << [title |-> "2. Back Body", patches |-> << Polygon(back.pts), Polygon(fold_line_back) >>] >>
    /\ UNCHANGED << aside, log, m, m0, run, err, history, radicand, dx_shoulder, back, front, sleeve, collar, placket,
                    interfacing, half_front_neckline_length, pages >>

\* script.py 402-421: the front body's boundary
FrontBoundary ==
    /\ pc = "front_boundary"
    /\ IF Has({"garment_length", "front_neck_drop", "neck_width_half", "shoulder_slope", "half_chest_flat", "armhole_depth"})
       THEN
           /\ front' = [front EXCEPT !.pts = front_polygon_pts_smooth]
           /\ stage' = [stage EXCEPT !["1. Front Body"] = "boundary"]
           /\ pc' = "front_annotate"
           /\ UNCHANGED << drawn, m, radicand, dx_shoulder, back, sleeve, collar, placket,
                           interfacing, half_back_neckline_length,
                           half_front_neckline_length, pages >>
           /\ err' = err
           /\ log' = log
       ELSE KeyError /\ UNCHANGED << m, radicand, dx_shoulder, outputs >>
    /\ UNCHANGED << m0, run, history, aside >>

\* script.py 423-459: seam allowances, grainline, notches, edge labels
FrontAnnotate ==
    /\ pc = "front_annotate"
    /\ front' = [front EXCEPT !.edges = front_edges,
                              !.seams = StraightSeams(front_edges, 1, front_plot_offset_x,
                                                      base_offset_y)]
    /\ stage' = [stage EXCEPT !["1. Front Body"] = "annotated"]
    /\ pc' = "front_finalize"
    /\ UNCHANGED << aside, drawn, log, m, m0, run, err, history, radicand, dx_shoulder, back, sleeve, collar, placket,
                    interfacing, half_back_neckline_length,
                    half_front_neckline_length, pages >>

\* script.py 461-475: placket indicator, half front neckline, piece handed over
FrontFinalize ==
    /\ pc = "front_finalize"
    /\ IF Has({"placket_width", "placket_length", "garment_length", "half_chest_flat"})
       THEN
           /\ front' = [front EXCEPT !.extra = <<placket_area_indicator>>]
           /\ half_front_neckline_length' = get_path_length(front_neck_path_right)
           /\ stage' = [stage EXCEPT !["1. Front Body"] = "finalized"]
           /\ pc' = "page1"
           /\ drawn' = drawn \o << [title |-> "1. Front Body", patches |-> << Polygon(front.pts), Rectangle(placket_area_indicator) >>] >>
           /\ UNCHANGED << m, radicand, dx_shoulder, back, sleeve, collar, placket,
                           interfacing, half_back_neckline_length, pages >>
           /\ err' = err
           /\ log' = log
       ELSE KeyError /\ UNCHANGED << m, radicand, dx_shoulder, outputs >>
    /\ UNCHANGED << m0, run, history, aside >>

\* script.py 477-484
SavePage1 ==
    /\ pc = "page1"
    /\ pages' = Append(pages, "pattern_page1.png")
    /\ pc' = "collar_length"
    /\ log' = Append(log, Info("Page 1 saved as pattern_page1.png"))
    /\ UNCHANGED << aside, drawn, m, m0, run, err, radicand, dx_shoulder, back, front, sleeve, collar,
                    placket, interfacing, half_back_neckline_length,
                    half_front_neckline_length, stage, history >>

\* a collar length that is only computed when the dict holds none yet
collar_length_kept ==
    IF "collar_length_calculated" \in DOMAIN m
    THEN m.collar_length_calculated
    ELSE (half_back_neckline_length + half_front_neckline_length) * 2

\* script.py 487: the value written under collar_length_calculated
collar_length_calculated ==
    (half_back_neckline_length + half_front_neckline_length) * 2

\* script.py 486-488
CalculateCollarLength ==
    /\ pc = "collar_length"
    /\ m' = SetItem(m, "collar_length_calculated", collar_length_calculated)
    /\ pc' = "sleeve_boundary"
    /\ log' = Append(Append(log, Info("Calculated Collar Length")),
                          Info("Generating Page 2: Sleeves & Collars"))
    /\ UNCHANGED << aside, m0, run, err, radicand, dx_shoulder, outputs, history >>

\* script.py 496-518: the sleeve boundary, shared by both sleeve pieces
SleeveBoundary ==
    /\ pc = "sleeve_boundary"
    /\ IF Has({"sleeve_length_outer", "sleeve_bicep_flat", "sleeve_cuff_flat"})
       THEN
           /\ sleeve' = [sleeve EXCEPT !.pts = sleeve_pts_smooth]
           /\ stage' = [stage EXCEPT !["3. Sleeve (Piece 1)"] = "boundary",
                                     !["4. Sleeve (Piece 2)"] = "boundary"]
           /\ pc' = "sleeve_annotate"
           /\ UNCHANGED << drawn, m, radicand, dx_shoulder, back, front, collar, placket,
                           interfacing, half_back_neckline_length,
                           half_front_neckline_length, pages >>
           /\ err' = err
           /\ log' = log
       ELSE KeyError /\ UNCHANGED << m, radicand, dx_shoulder, outputs >>
    /\ UNCHANGED << m0, run, history, aside >>

\* script.py 520-533: the same seam lines and labels on each of the two axes
SleeveAnnotate ==
    /\ pc = "sleeve_annotate"
    /\ sleeve' = [sleeve EXCEPT !.edges = sleeve_edges,
                                !.seams = StraightSeams(sleeve_edges, 1, 0, 0)]
    /\ stage' = [stage EXCEPT !["3. Sleeve (Piece 1)"] = "annotated",
                              !["4. Sleeve (Piece 2)"] = "annotated"]
    /\ pc' = "sleeve_finalize"
    /\ UNCHANGED << aside, drawn, log, m, m0, run, err, history, radicand, dx_shoulder, back, front, collar, placket,
                    interfacing, half_back_neckline_length,
                    half_front_neckline_length, pages >>

\* script.py 535-543
SleeveFinalize ==
    /\ pc = "sleeve_finalize"
    /\ stage' = [stage EXCEPT !["3. Sleeve (Piece 1)"] = "finalized",
                              !["4. Sleeve (Piece 2)"] = "finalized"]
    /\ pc' = "collar_boundary"
    /\ drawn' = drawn \o << [title |-> "3. Sleeve (Piece 1)", patches |-> << Polygon(sleeve.pts) >>],
                           [title |-> "4. Sleeve (Piece 2)", patches |-> << Polygon(sleeve.pts) >>] >>
    /\ UNCHANGED << aside, log, m, m0, run, err, radicand, dx_shoulder, back, front, sleeve, collar,
                    placket, interfacing, half_back_neckline_length,
                    half_front_neckline_length, pages, history >>

\* script.py 546
collar_l == m.collar_length_calculated
collar_h == m.collar_height_flat

\* script.py 546-554: the collar rectangle and its fold line, for both collar pieces
CollarBoundary ==
    /\ pc = "collar_boundary"
    /\ IF Has({"collar_length_calculated", "collar_height_flat"})
       THEN
           /\ collar' = [collar EXCEPT
                           !.rect = <<base_offset_x, base_offset_y, collar_l, collar_h>>,
                           !.extra = << <<base_offset_x, base_offset_y + RoundDiv(collar_h, 2)>>,
                                        <<base_offset_x + collar_l,
                                          base_offset_y + RoundDiv(collar_h, 2)>> >>]
           /\ stage' = [stage EXCEPT !["5. Collar (Piece 1)"] = "boundary",
                                     !["6. Collar (Piece 2)"] = "boundary"]
           /\ pc' = "collar_annotate"
           /\ UNCHANGED << drawn, m, radicand, dx_shoulder, back, front, sleeve, placket,
                           interfacing, half_back_neckline_length,
                           half_front_neckline_length, pages >>
           /\ err' = err
           /\ log' = log
       ELSE KeyError /\ UNCHANGED << m, radicand, dx_shoulder, outputs >>
    /\ UNCHANGED << m0, run, history, aside >>

\* script.py 555-560: the same four seam lines and labels on each of the two axes
CollarAnnotate ==
    /\ pc = "collar_annotate"
    /\ collar' = [collar EXCEPT !.seams = RectSeams(collar.rect[3], collar.rect[4])]
    /\ stage' = [stage EXCEPT !["5. Collar (Piece 1)"] = "annotated",
                              !["6. Collar (Piece 2)"] = "annotated"]
    /\ pc' = "collar_finalize"
    /\ UNCHANGED << aside, drawn, log, m, m0, run, err, radicand, dx_shoulder, back, front, sleeve,
                    placket, interfacing, half_back_neckline_length,
                    half_front_neckline_length, pages, history >>

\* script.py 562-568
CollarFinalize ==
    /\ pc = "collar_finalize"
    /\ stage' = [stage EXCEPT !["5. Collar (Piece 1)"] = "finalized",
                              !["6. Collar (Piece 2)"] = "finalized"]
    /\ pc' = "page2"
    /\ drawn' = drawn \o << [title |-> "5. Collar (Piece 1)", patches |-> << Rectangle(collar.rect), Polygon(collar.extra) >>],
                           [title |-> "6. Collar (Piece 2)", patches |-> << Rectangle(collar.rect), Polygon(collar.extra) >>] >>
    /\ UNCHANGED << aside, log, m, m0, run, err, radicand, dx_shoulder, back, front, sleeve, collar,
                    placket, interfacing, half_back_neckline_length,
                    half_front_neckline_length, pages, history >>

\* script.py 569-576
SavePage2 ==
    /\ pc = "page2"
    /\ pages' = Append(pages, "pattern_page2.png")
    /\ pc' = "placket_boundary"
    /\ log' = Append(Append(log, Info("Page 2 saved as pattern_page2.png")),
                          Info("Generating Page 3: Plackets & Interfacing"))
    /\ UNCHANGED << aside, drawn, m, m0, run, err, radicand, dx_shoulder, back, front, sleeve, collar,
                    placket, interfacing, half_back_neckline_length,
                    half_front_neckline_length, stage, history >>

\* script.py 589
num_buttons == 3

\* the buttons spread over the length divided by their number
buttons_spaced_by_count(placket_w, placket_l) ==
    IF placket_l > H(100) /\ placket_w > H(20)
    THEN LET button_spacing == RoundDiv(placket_l, num_buttons)
             button_radius == Min(Times(placket_w, 15, 100), H(18))
         IN  [i \in 1..num_buttons |->
                << base_offset_x + RoundDiv(placket_w, 2),
                   base_offset_y + i * button_spacing,
                   button_radius >>]
    ELSE << >>

\* script.py 588-596: the button circles <<x, y, radius>> of the button-side placket
buttons(placket_w, placket_l) ==
    IF placket_l > H(100) /\ placket_w > H(20)
    THEN LET button_spacing == RoundDiv(placket_l, num_buttons + 1)
             button_radius == Min(Times(placket_w, 15, 100), H(18))
         IN  [i \in 1..num_buttons |->
                << base_offset_x + RoundDiv(placket_w, 2),
                   base_offset_y + i * button_spacing,
                   button_radius >>]
    ELSE << >>

\* script.py 583-596: the placket rectangle of both pieces, and the buttons
PlacketBoundary ==
    /\ pc = "placket_boundary"
    /\ placket' = [placket EXCEPT
                     !.rect = <<base_offset_x, base_offset_y, m.placket_width, m.placket_length>>,
                     !.extra = buttons(m.placket_width, m.placket_length)]
    /\ stage' = [stage EXCEPT !["7. Placket (Button Side)"] = "boundary",
                              !["8. Placket (Buttonhole Side)"] = "boundary"]
    /\ pc' = "placket_annotate"
    /\ UNCHANGED << aside, drawn, log, m, m0, run, err, history, radicand, dx_shoulder, back, front, sleeve, collar,
                    interfacing, half_back_neckline_length,
                    half_front_neckline_length, pages >>

\* script.py 598-603: the same four seam lines and labels on each of the two axes
PlacketAnnotate ==
    /\ pc = "placket_annotate"
    /\ placket' = [placket EXCEPT !.seams = RectSeams(placket.rect[3], placket.rect[4])]
    /\ stage' = [stage EXCEPT !["7. Placket (Button Side)"] = "annotated",
                              !["8. Placket (Buttonhole Side)"] = "annotated"]
    /\ pc' = "placket_finalize"
    /\ UNCHANGED << aside, drawn, log, m, m0, run, err, radicand, dx_shoulder, back, front, sleeve, collar,
                    interfacing, half_back_neckline_length,
                    half_front_neckline_length, pages, history >>

\* the button side handed over on both axes, the buttonhole side never
PlacketFinalizeButtonSideTwice ==
    /\ pc = "placket_finalize"
    /\ stage' = [stage EXCEPT !["7. Placket (Button Side)"] = "finalized"]
    /\ pc' = "interfacing_boundary"
    /\ drawn' = drawn \o << [title |-> "7. Placket (Button Side)", patches |-> << Rectangle(placket.rect) >> \o Circles(placket.extra)],
                           [title |-> "7. Placket (Button Side)", patches |-> << Rectangle(placket.rect) >>] >>
    /\ UNCHANGED << aside, log, m, m0, run, err, radicand, dx_shoulder, back, front, sleeve, collar,
                    placket, interfacing, half_back_neckline_length,
                    half_front_neckline_length, pages, history >>

\* script.py 605-610
PlacketFinalize ==
    /\ pc = "placket_finalize"
    /\ stage' = [stage EXCEPT !["7. Placket (Button Side)"] = "finalized",
                              !["8. Placket (Buttonhole Side)"] = "finalized"]
    /\ pc' = "interfacing_boundary"
    /\ drawn' = drawn \o << [title |-> "7. Placket (Button Side)", patches |-> << Rectangle(placket.rect) >> \o Circles(placket.extra)],
                           [title |-> "8. Placket (Buttonhole Side)", patches |-> << Rectangle(placket.rect) >>] >>
    /\ UNCHANGED << aside, log, m, m0, run, err, radicand, dx_shoulder, back, front, sleeve, collar,
                    placket, interfacing, half_back_neckline_length,
                    half_front_neckline_length, pages, history >>

\* script.py 612-615: the interfacing rectangles reuse collar_l, collar_h,
\* placket_w and placket_l; they get no seam allowance
InterfacingBoundary ==
    /\ pc = "interfacing_boundary"
    /\ interfacing' = [interfacing EXCEPT
                         !.rect = <<base_offset_x, base_offset_y, collar.rect[3], collar.rect[4]>>,
                         !.extra = <<base_offset_x, base_offset_y, placket.rect[3], placket.rect[4]>>]
    /\ stage' = [stage EXCEPT !["9. Collar Interfacing"] = "boundary",
                              !["10. Placket Interfacing"] = "boundary"]
    /\ pc' = "interfacing_annotate"
    /\ UNCHANGED << aside, drawn, log, m, m0, run, err, radicand, dx_shoulder, back, front, sleeve, collar,
                    placket, half_back_neckline_length,
                    half_front_neckline_length, pages, history >>

\* script.py 616-618: dimension labels only
InterfacingAnnotate ==
    /\ pc = "interfacing_annotate"
    /\ stage' = [stage EXCEPT !["9. Collar Interfacing"] = "annotated",
                              !["10. Placket Interfacing"] = "annotated"]
    /\ pc' = "interfacing_finalize"
    /\ UNCHANGED << aside, drawn, log, m, m0, run, err, radicand, dx_shoulder, back, front, sleeve, collar,
                    placket, interfacing, half_back_neckline_length,
                    half_front_neckline_length, pages, history >>

\* script.py 620-626
InterfacingFinalize ==
    /\ pc = "interfacing_finalize"
    /\ stage' = [stage EXCEPT !["9. Collar Interfacing"] = "finalized",
                              !["10. Placket Interfacing"] = "finalized"]
    /\ pc' = "page3"
    /\ drawn' = drawn \o << [title |-> "9. Collar Interfacing", patches |-> << Rectangle(interfacing.rect) >>],
                           [title |-> "10. Placket Interfacing", patches |-> << Rectangle(interfacing.extra) >>] >>
    /\ UNCHANGED << aside, log, m, m0, run, err, radicand, dx_shoulder, back, front, sleeve, collar,
                    placket, interfacing, half_back_neckline_length,
                    half_front_neckline_length, pages, history >>

\* what one completed call produced
Result ==
    [ back |-> back, front |-> front, sleeve |-> sleeve, collar |-> collar,
      placket |-> placket, interfacing |-> interfacing,
      collar_length |-> m.collar_length_calculated ]

\* script.py 627-634: the last page is saved and the call returns
SavePage3 ==
    /\ pc = "page3"
    /\ pages' = Append(pages, "pattern_page3.png")
    /\ history' = Append(history, Result)
    /\ pc' = "done"
    /\ log' = Append(log, Info("Page 3 saved as pattern_page3.png"))
    /\ UNCHANGED << aside, drawn, m, m0, run, err, radicand, dx_shoulder, back, front, sleeve, collar,
                    placket, interfacing, half_back_neckline_length,
                    half_front_neckline_length, stage >>

\* the locals of a call as it begins, script.py 317-324: nothing drafted yet
Undrafted == [p \in PIECES |-> "undrafted"]

\* generate_pattern_visuals called again with the dict the last call left behind
CallAgain ==
    /\ pc = "done"
    /\ run < MaxRuns
    /\ run' = run + 1
    /\ m0' = m
    /\ pc' = "clamp"
    /\ radicand' = 0
    /\ dx_shoulder' = 0
    /\ back' = NoPolygon
    /\ front' = NoPolygon
    /\ sleeve' = NoPolygon
    /\ collar' = NoRect
    /\ placket' = NoRect
    /\ interfacing' = NoRect
    /\ half_back_neckline_length' = 0
    /\ half_front_neckline_length' = 0
    /\ stage' = Undrafted
    /\ pages' = << >>
    /\ drawn' = << >>
    /\ log' = Append(log, Info("Starting pattern generation"))
    /\ UNCHANGED << m, err, history, aside >>

Init ==
    /\ m \in Inputs
    /\ m0 = m
    /\ run = 1
    /\ history = << >>
    /\ pc = "clamp"
    /\ err = "none"
    /\ radicand = 0
    /\ dx_shoulder = 0
    /\ back = NoPolygon
    /\ front = NoPolygon
    /\ sleeve = NoPolygon
    /\ collar = NoRect
    /\ placket = NoRect
    /\ interfacing = NoRect
    /\ half_back_neckline_length = 0
    /\ half_front_neckline_length = 0
    /\ stage = Undrafted
    /\ pages = << >>
    /\ drawn = << >>
    /\ log = << Info("Starting pattern generation") >>
    /\ printed = << >>
    /\ prompt = NoPrompt
    /\ geo = NoCurve

(* ------------------------------------ output_product_details, script.py 639-654 *)
\* script.py 12, in hundredths
IN_TO_CM == 254

\* a length in inches as f"{... * IN_TO_CM:.1f}" prints it: tenths of a centimetre
CmTenths(x) == RoundDiv(x * IN_TO_CM, 10 * TicksPerInch)

\* script.py 663-664: the call came back, and __main__ prints the product details
\* from the same dict
OutputProductDetails ==
    /\ pc = "done"
    /\ printed' = [ chest |-> CmTenths(2 * m.half_chest_flat),
                    length |-> CmTenths(m.garment_length),
                    sleeve |-> CmTenths(m.sleeve_length_outer),
                    bicep |-> CmTenths(2 * m.sleeve_bicep_flat),
                    cuff |-> CmTenths(2 * m.sleeve_cuff_flat),
                    collar |-> IF "collar_length_calculated" \in DOMAIN m
                               THEN << CmTenths(m.collar_length_calculated) >>
                               ELSE << >> ]
    /\ pc' = "complete"
    /\ UNCHANGED << m, m0, run, err, radicand, dx_shoulder, outputs, history, log, prompt, geo >>

Next ==
    \/ ClampShoulder
    \/ BackBoundary \/ BackAnnotate \/ BackFinalize
    \/ FrontBoundary \/ FrontAnnotate \/ FrontFinalize
    \/ SavePage1
    \/ CalculateCollarLength
    \/ SleeveBoundary \/ SleeveAnnotate \/ SleeveFinalize
    \/ CollarBoundary \/ CollarAnnotate \/ CollarFinalize
    \/ SavePage2
    \/ PlacketBoundary \/ PlacketAnnotate \/ PlacketFinalize
    \/ InterfacingBoundary \/ InterfacingAnnotate \/ InterfacingFinalize
    \/ SavePage3
    \/ CallAgain
    \/ OutputProductDetails

Spec == Init /\ [][Next]_vars

(* ------------------------------------------------------------- properties *)
BackDrafted == back.pts # << >>
FrontDrafted == front.pts # << >>
SleeveDrafted == sleeve.pts # << >>
CollarDrafted == collar.rect # << >>
BodiesFinalized ==
    /\ stage["2. Back Body"] = "finalized"
    /\ stage["1. Front Body"] = "finalized"

\* C1 (as claimed): a measurement set with a missing key or a value <= 0 is
\* rejected with InvalidMeasurement before any geometry is computed or drawn:
\* the call never gets past its entry, and ends with that error.
C1_InvalidRejectedBeforeDrafting ==
    Invalid(m0) =>
        /\ pc \in {"clamp", "raised"}
        /\ pc = "raised" => err = "InvalidMeasurement"
        /\ stage = Undrafted
        /\ pages = << >>

\* C2: the collar length is written only once both bodies are finalized and
\* before the collar is drafted, and a drafted collar always has the length
\* computed in this call from this call's half necklines, whatever the dict
\* held under collar_length_calculated when the call began.
C2_CollarLengthOrdering ==
    /\ [](CollarDrafted =>
            /\ BodiesFinalized
            /\ collar.rect[3] = (half_back_neckline_length + half_front_neckline_length) * 2
            /\ collar.rect[3] = m.collar_length_calculated)
    /\ [][(pc = "collar_length" /\ pc' # pc) =>
            /\ BodiesFinalized /\ BackDrafted /\ FrontDrafted /\ ~CollarDrafted
            /\ m'.collar_length_calculated
                 = (half_back_neckline_length + half_front_neckline_length) * 2]_vars
    /\ [][( /\ "collar_length_calculated" \in DOMAIN m'
            /\ \/ "collar_length_calculated" \notin DOMAIN m
               \/ m'.collar_length_calculated # m.collar_length_calculated ) =>
            pc = "collar_length"]_vars

\* C2 witness: the dict came with a collar length, and the collar was drafted
\* with another one
C2_Witness ==
    /\ CollarDrafted
    /\ run = 1
    /\ "collar_length_calculated" \in DOMAIN m0
    /\ collar.rect[3] # m0.collar_length_calculated

\* C3: the collar length in the dict and the collar rectangle's width are twice
\* the path length of the drafted back neck edge plus twice the path length of
\* the drafted right front neck edge.
C3_CollarLengthFromNecklines ==
    CollarDrafted =>
        LET half_back == get_path_length(back.edges[5].pts)
            half_front == get_path_length(front.edges[1].pts)
        IN  /\ back.edges[5].kind = "bezier"
            /\ front.edges[1].kind = "bezier"
            /\ m.collar_length_calculated = 2 * half_back + 2 * half_front
            /\ collar.rect[3] = 2 * half_back + 2 * half_front

\* C3 witness: a collar drafted from two curved necklines
C3_Witness ==
    /\ CollarDrafted
    /\ collar.rect[3] > 0
    /\ get_path_length(back.edges[5].pts) > dist(back.edges[5].pts[1], back.edges[5].pts[3])

\* C4 (as claimed): a call changes nothing in the dict but the key
\* collar_length_calculated; every other key the caller supplied keeps its value.
C4_OnlyCollarKeyWritten ==
    /\ DOMAIN m \subseteq DOMAIN m0 \cup {"collar_length_calculated"}
    /\ \A k \in DOMAIN m0 \ {"collar_length_calculated"} :
          k \in DOMAIN m /\ m[k] = m0[k]

\* C5: for positive shoulder width and slope, once line 328 has run the slope in
\* use is at most the width, the radicand is non-negative and dx_shoulder is a
\* non-negative number whose square is the radicand (to the nearest tick); a
\* width of 1.0 with a slope of 2.0 gives the slope 0.98.
C5_RadicandNonNegative ==
    ( /\ pc # "clamp"
      /\ {"shoulder_width", "shoulder_slope"} \subseteq DOMAIN m0
      /\ m0.shoulder_width > 0
      /\ m0.shoulder_slope > 0 ) =>
        /\ m.shoulder_slope <= m.shoulder_width
        /\ radicand >= 0
        /\ radicand = m.shoulder_width * m.shoulder_width - m.shoulder_slope * m.shoulder_slope
        /\ dx_shoulder >= 0
        /\ (2 * dx_shoulder - 1) * (2 * dx_shoulder - 1) <= 4 * radicand \/ dx_shoulder = 0
        /\ 4 * radicand <= (2 * dx_shoulder + 1) * (2 * dx_shoulder + 1)
        /\ (m0.shoulder_width = H(100) /\ m0.shoulder_slope = H(200))
              => m.shoulder_slope = H(98)

\* C5 witness: width 1.0, slope 2.0, clamped to 0.98
C5_Witness ==
    /\ pc = "back_boundary"
    /\ m0.shoulder_width = H(100)
    /\ m0.shoulder_slope = H(200)
    /\ m.shoulder_slope = H(98)
    /\ dx_shoulder > 0

\* C6: in the drafted sleeve the cuff edge is never wider than the bicep span
\* and sits centred in it; when the cuff measurement exceeds the bicep
\* measurement the cuff edge is exactly as wide as the bicep span.
C6_CuffWithinBicep ==
    SleeveDrafted =>
        LET cuff_left == sleeve.pts[1]
            cuff_right == sleeve.pts[2]
            underarm_right == sleeve.pts[3]
            underarm_left == sleeve.pts[Len(sleeve.pts)]
            cuff_width == cuff_right[1] - cuff_left[1]
            bicep_width == underarm_right[1] - underarm_left[1]
        IN  /\ cuff_width <= bicep_width
            /\ bicep_width = m0.sleeve_bicep_flat
            /\ cuff_left[1] - underarm_left[1] = underarm_right[1] - cuff_right[1]
            /\ m0.sleeve_cuff_flat > m0.sleeve_bicep_flat =>
                  cuff_width = bicep_width
            /\ m0.sleeve_cuff_flat <= m0.sleeve_bicep_flat =>
                  cuff_width = m0.sleeve_cuff_flat

\* C6 witness: a sleeve drafted from a cuff measurement above the bicep measurement
C6_Witness ==
    /\ SleeveDrafted
    /\ m0.sleeve_cuff_flat > m0.sleeve_bicep_flat
    /\ m0.sleeve_bicep_flat > 0

\* C7: every point of the flattened front boundary has its mirror image about
\* x = 0 on the boundary too, the sampled points of the mirrored curves included.
\* The mirror image of the i-th point is the point as far from the end of the
\* closed boundary as i is from its start (the mirrored curves run the other
\* way); the first point, the centre-front neck, lies on the axis.
C7_FrontSymmetric ==
    FrontDrafted =>
        LET n == Len(front.pts)
        IN  /\ front.pts[1] = MirrorX(front.pts[1])
            /\ \A i \in 2..n : front.pts[n + 2 - i] = MirrorX(front.pts[i])

\* C7 witness: a drafted front whose armhole curve has a sampled point off the
\* axis that is not a landmark
C7_Witness ==
    /\ FrontDrafted
    /\ Len(front.pts) = 4 * NUM_POINTS + 5
    /\ front.pts[NUM_POINTS + 10][1] > 0
    /\ front.pts[NUM_POINTS + 10] # front.pts[NUM_POINTS + 11]

\* the boundary pieces a completed call produced
Boundaries(r) ==
    << r.back.pts, r.front.pts, r.sleeve.pts, r.collar.rect, r.placket.rect, r.collar_length >>

\* C8: a second (and any later) call on the dict an earlier call left behind
\* produces the same boundary points for every piece, and the same collar length.
C8_Idempotent ==
    \A i \in 1..Len(history) : Boundaries(history[i]) = Boundaries(history[1])

\* C8 witness: two completed calls on a dict whose slope the first call clamped
C8_Witness ==
    /\ Len(history) = 2
    /\ m.shoulder_width = H(100)
    /\ m.shoulder_slope = H(98)
    /\ history[2].back.pts # << >>

Cross(a, b) == a[1] * b[2] - a[2] * b[1]

\* twice the signed area of a closed polygon: positive when its points run
\* counter-clockwise, so that its interior lies to the left of every edge
RECURSIVE Area2Range(_, _, _)
Area2Range(pts, lo, hi) ==
    IF lo = hi THEN Cross(pts[lo], pts[IF lo = Len(pts) THEN 1 ELSE lo + 1])
    ELSE LET mid == (lo + hi) \div 2
         IN  Area2Range(pts, lo, mid) + Area2Range(pts, mid + 1, hi)

Area2(pts) == IF pts = << >> THEN 0 ELSE Area2Range(pts, 1, Len(pts))

RectCorners(r) ==
    << <<r[1], r[2]>>, <<r[1] + r[3], r[2]>>, <<r[1] + r[3], r[2] + r[4]>>, <<r[1], r[2] + r[4]>> >>

\* a seam line of a piece with the given boundary: parallel to its edge, at the
\* seam offset from it (to the tick), on the side the edge direction turned by
\* -90 degrees points to, and on the side away from the piece's interior
SeamAsClaimed(line, boundary) ==
    LET v == <<line.p2[1] - line.p1[1], line.p2[2] - line.p1[2]>>
        d == <<line.q1[1] - line.p1[1], line.q1[2] - line.p1[2]>>
        dd == d[1] * d[1] + d[2] * d[2]
    IN  /\ <<line.q2[1] - line.q1[1], line.q2[2] - line.q1[2]>> = v
        /\ (SEAM_OFFSET - 1) * (SEAM_OFFSET - 1) <= dd
        /\ dd <= (SEAM_OFFSET + 1) * (SEAM_OFFSET + 1)
        /\ Cross(v, d) < 0
        /\ (Area2(boundary) > 0 => Cross(v, d) < 0)
        /\ (Area2(boundary) < 0 => Cross(v, d) > 0)

SeamsAsClaimed(seams, boundary) ==
    \A i \in 1..Len(seams) : SeamAsClaimed(seams[i], boundary)

\* C9 (as claimed): every straight seam-allowance line of the back, front,
\* sleeve, collar and placket is parallel to its edge, at the seam offset from
\* it, displaced along the edge direction turned by -90 degrees, and outside
\* the finished boundary of its piece.
C9_SeamAllowanceOutside ==
    /\ SeamsAsClaimed(back.seams, back.pts)
    /\ SeamsAsClaimed(front.seams, front.pts)
    /\ SeamsAsClaimed(sleeve.seams, sleeve.pts)
    /\ (collar.seams # << >> => SeamsAsClaimed(collar.seams, RectCorners(collar.rect)))
    /\ (placket.seams # << >> => SeamsAsClaimed(placket.seams, RectCorners(placket.rect)))

Last(s) == s[Len(s)]

\* an edge list walked in order: each edge ends where the next begins
Chained(edges) ==
    \A i \in 1..(Len(edges) - 1) : Last(edges[i].pts) = edges[i + 1].pts[1]

\* a closed edge list: the last edge ends where the first begins
Closed(edges) == Last(edges[Len(edges)].pts) = edges[1].pts[1]

\* the points an edge contributes to a flattened boundary, its end point left
\* to the next edge
RECURSIVE Flatten(_, _)
Flatten(edges, i) ==
    IF i > Len(edges) THEN << >>
    ELSE (IF edges[i].kind = "straight"
          THEN <<edges[i].pts[1]>>
          ELSE LET b == generate_bezier_points(edges[i].pts[1], edges[i].pts[2],
                                               edges[i].pts[3], NUM_POINTS)
               IN  SubSeq(b, 1, Len(b) - 1))
         \o Flatten(edges, i + 1)

\* C10: in the back, front and sleeve edge lists each edge ends where the next
\* begins; the front and sleeve lists end where they began; and each piece's
\* flattened polygon is its edge list walked in order (the open back list
\* followed by its last end point).
C10_EdgeListsChained ==
    /\ back.edges # << >> =>
          /\ Chained(back.edges)
          /\ back.pts = Flatten(back.edges, 1) \o <<Last(back.edges[Len(back.edges)].pts)>>
    /\ front.edges # << >> =>
          /\ Chained(front.edges)
          /\ Closed(front.edges)
          /\ front.pts = Flatten(front.edges, 1)
    /\ sleeve.edges # << >> =>
          /\ Chained(sleeve.edges)
          /\ Closed(sleeve.edges)
          /\ sleeve.pts = Flatten(sleeve.edges, 1)

\* C10 witness: all three edge lists built, none of them degenerate
C10_Witness ==
    /\ Len(back.edges) = 5
    /\ Len(front.edges) = 9
    /\ Len(sleeve.edges) = 5
    /\ \A i \in 1..5 : sleeve.edges[i].pts[1] # Last(sleeve.edges[i].pts)

(* ------------------------------------------------------ piece life cycle *)
\* the drafted data behind a drawn piece
PieceOf(p) ==
    CASE p = "1. Front Body" -> front
      [] p = "2. Back Body" -> back
      [] p \in {"3. Sleeve (Piece 1)", "4. Sleeve (Piece 2)"} -> sleeve
      [] p \in {"5. Collar (Piece 1)", "6. Collar (Piece 2)"} -> collar
      [] p \in {"7. Placket (Button Side)", "8. Placket (Buttonhole Side)"} -> placket
      [] OTHER -> interfacing

BoundaryExists(p) ==
    CASE p \in {"1. Front Body", "2. Back Body", "3. Sleeve (Piece 1)", "4. Sleeve (Piece 2)"} ->
             PieceOf(p).pts # << >>
      [] p = "10. Placket Interfacing" -> interfacing.extra # << >>
      [] OTHER -> PieceOf(p).rect # << >>

SeamsExist(p) == PieceOf(p).seams # << >>

Rank(s) ==
    CASE s = "undrafted" -> 0
      [] s = "boundary" -> 1
      [] s = "annotated" -> 2
      [] s = "finalized" -> 3

DrawnTitles == { drawn[i].title : i \in 1..Len(drawn) }

\* a fresh call of generate_pattern_visuals begins
NewCall == pc = "done" /\ pc' = "clamp"

LifeCycleState ==
    \A p \in PIECES :
        /\ stage[p] # "undrafted" => BoundaryExists(p)
        /\ SeamsExist(p) => BoundaryExists(p) /\ Rank(stage[p]) >= 2
        /\ stage[p] = "finalized" <=> p \in DrawnTitles

LifeCycleStep ==
    \A p \in PIECES :
        /\ stage'[p] # stage[p] =>
               \/ Rank(stage'[p]) = Rank(stage[p]) + 1
               \/ NewCall /\ stage'[p] = "undrafted"
        /\ stage[p] = "finalized" /\ ~NewCall => PieceOf(p)' = PieceOf(p)

\* C11: within one call every piece moves only forward, one step at a time, through
\* undrafted, boundary computed, annotated, finalized: seam allowance exists only
\* on a piece whose boundary exists, a finalized piece is never touched again, and
\* no piece is handed to draw_pattern_piece_with_details twice
C11_PieceLifeCycle ==
    /\ [](LifeCycleState /\ Cardinality(DrawnTitles) = Len(drawn))
    /\ [][LifeCycleStep]_vars

\* a second call has taken all ten pieces to the end
C11_Witness ==
    /\ run = 2
    /\ pc = "done"
    /\ Len(drawn) = Cardinality(PIECES)
    /\ \A p \in PIECES : stage[p] = "finalized"

(* ------------------------------------------------------- the clamp report *)
\* the clamp of script.py 326-327 fired in the call now in progress
ClampFired ==
    /\ {"shoulder_width", "shoulder_slope"} \subseteq DOMAIN m0
    /\ m0.shoulder_width < m0.shoulder_slope

\* the logger records of the call in progress: those after its opening record
CallStart ==
    CHOOSE i \in 1..Len(log) :
        /\ log[i] = Info("Starting pattern generation")
        /\ \A j \in (i + 1)..Len(log) : log[j] # Info("Starting pattern generation")

CallLog == SubSeq(log, CallStart + 1, Len(log))

\* what a completed call tells its caller beyond its routine progress records; the
\* function has no return statement, so the logger records are all there is
Reports ==
    { i \in 1..Len(CallLog) :
        CallLog[i] \notin { Info("Generating Page 1: Body Pieces"),
                            Info("Page 1 saved as pattern_page1.png"),
                            Info("Calculated Collar Length"),
                            Info("Generating Page 2: Sleeves & Collars"),
                            Info("Page 2 saved as pattern_page2.png"),
                            Info("Generating Page 3: Plackets & Interfacing"),
                            Info("Page 3 saved as pattern_page3.png") } }

\* C12: a completed call reports the shoulder-slope adjustment to its caller exactly
\* when the clamp fired: some report when the slope exceeded the width, none otherwise
C12_ClampReported ==
    pc = "done" => (ClampFired <=> Reports # {})

(* ------------------------ get_user_measurements and __main__, script.py 187-261, 656-670 *)
\* the order in which the prompts walk the keys: the dict order of script.py 165-169
KeyOrder ==
    << "half_chest_flat", "garment_length", "neck_width_half", "front_neck_drop",
       "back_neck_drop", "shoulder_width", "shoulder_slope", "armhole_depth",
       "sleeve_length_outer", "sleeve_bicep_flat", "sleeve_cuff_flat",
       "collar_height_flat", "placket_width", "placket_length" >>

\* what the user may type at the three kinds of prompt
SizeInputs == { "s", "M", "L", "xl", "", "quit" }
ValueInputs == { "", "Cancel", "abc", "0", "-1", "2.5", "nan" }
ConfirmInputs == { "", "E", "s", "x" }

\* str.upper and str.lower on the inputs above
Upper(tok) ==
    CASE tok = "s" -> "S"
      [] tok = "xl" -> "XL"
      [] tok = "quit" -> "QUIT"
      [] OTHER -> tok

Lower(tok) ==
    CASE tok = "Cancel" -> "cancel"
      [] tok = "E" -> "e"
      [] OTHER -> tok

\* float('nan'): a value for which every comparison is false
NaN == -(2 ^ 30)

\* float(user_input) at 218 and 243: the inputs it parses, and what it makes of them;
\* on the others it raises ValueError
IsFloat(tok) == tok \in { "0", "-1", "2.5", "nan" }

float(tok) ==
    CASE tok = "0" -> 0
      [] tok = "-1" -> -H(100)
      [] tok = "2.5" -> H(250)
      [] tok = "nan" -> NaN

\* a <= b and a > b on floats
FloatLeq(a, b) == a # NaN /\ b # NaN /\ a <= b
FloatGt(a, b) == a # NaN /\ b # NaN /\ a > b

\* the return values of get_user_measurements
NoResult == [set |-> FALSE, none |-> TRUE, size |-> "", meas |-> << >>]
ReturnNone == [set |-> TRUE, none |-> TRUE, size |-> "", meas |-> << >>]
Return(size, meas) == [set |-> TRUE, none |-> FALSE, size |-> size, meas |-> meas]

\* get_user_measurements as it is entered, by __main__ or by itself at 216 and 256
Entered ==
    [at |-> "size", size |-> "", cur |-> << >>, idx |-> 0, edits |-> 0, why |-> "",
     result |-> NoResult]

\* the drafting state, which the prompts leave alone
drafting == << m, m0, pc, run, err, radicand, dx_shoulder, outputs, history >>

\* script.py 191-201: the size prompt
EnterSize ==
    /\ prompt.at = "size"
    /\ \E tok \in SizeInputs :
          prompt' =
              IF Upper(tok) = "QUIT"
              THEN [prompt EXCEPT !.at = "returned", !.why = "quit", !.result = ReturnNone]
              ELSE IF Upper(tok) \in SIZES
                   THEN [prompt EXCEPT !.at = "customize", !.size = Upper(tok),
                                       !.cur = PREDEFINED_MEASUREMENTS[Upper(tok)],
                                       !.idx = 1]
                   ELSE prompt
    /\ UNCHANGED << drafting, log, printed, geo >>

\* the prompt loop moving on to the next key, or leaving the for loop
NextKey(after) ==
    IF prompt.idx < Len(KeyOrder)
    THEN [prompt EXCEPT !.idx = prompt.idx + 1]
    ELSE [prompt EXCEPT !.at = after, !.idx = 0]

\* customized_measurements[key] = new_value, then break
Accept(tok, after) ==
    [NextKey(after) EXCEPT !.cur = [prompt.cur EXCEPT ![KeyOrder[prompt.idx]] = float(tok)],
                           !.edits = prompt.edits + 1]

\* the input is a number that line 220 or 245 lets through
Accepted(tok) == IsFloat(tok) /\ ~FloatLeq(float(tok), 0)

\* script.py 208-226: one answer to a customisation prompt
Customize ==
    /\ prompt.at = "customize"
    /\ \E tok \in ValueInputs :
          /\ Accepted(tok) => prompt.edits < MaxAccepted
          /\ prompt' =
                 IF Lower(tok) = "cancel" THEN Entered
                 ELSE IF tok = "" THEN NextKey("confirm")
                 ELSE IF ~IsFloat(tok) THEN prompt
                 ELSE IF FloatLeq(float(tok), 0) THEN prompt
                 ELSE Accept(tok, "confirm")
    /\ UNCHANGED << drafting, log, printed, geo >>

\* script.py 232-258: one answer to the confirmation prompt
Confirm ==
    /\ prompt.at = "confirm"
    /\ \E tok \in ConfirmInputs :
          prompt' =
              IF Lower(tok) = ""
              THEN [prompt EXCEPT !.at = "returned", !.why = "confirmed",
                                  !.result = Return(prompt.size, prompt.cur)]
              ELSE IF Lower(tok) = "e" THEN [prompt EXCEPT !.at = "edit", !.idx = 1]
              ELSE IF Lower(tok) = "s" THEN Entered
              ELSE prompt
    /\ UNCHANGED << drafting, log, printed, geo >>

\* script.py 237-254: one answer to an edit prompt; 'cancel' is no keyword here
Edit ==
    /\ prompt.at = "edit"
    /\ \E tok \in ValueInputs :
          /\ Accepted(tok) => prompt.edits < MaxAccepted
          /\ prompt' =
                 IF tok = "" THEN NextKey("confirm")
                 ELSE IF ~IsFloat(tok) THEN prompt
                 ELSE IF FloatLeq(float(tok), 0) THEN prompt
                 ELSE Accept(tok, "confirm")
    /\ UNCHANGED << drafting, log, printed, geo >>

\* script.py 259-261: input() raises EOFError when the input ends
EndOfInput ==
    /\ prompt.at \in { "size", "customize", "confirm", "edit" }
    /\ prompt' = [prompt EXCEPT !.at = "returned", !.why = "eof", !.result = ReturnNone]
    /\ log' = Append(log, Error("Error in get_user_measurements"))
    /\ UNCHANGED << drafting, printed, geo >>

\* script.py 660-667: __main__ drafts when it was handed a measurement set
MainDispatch ==
    /\ prompt.at = "returned"
    /\ IF ~prompt.result.none /\ DOMAIN prompt.result.meas # {}
       THEN /\ prompt' = [prompt EXCEPT !.at = "drafting"]
            /\ m' = prompt.result.meas
            /\ m0' = prompt.result.meas
            /\ pc' = "clamp"
            /\ run' = 1
            /\ log' = Append(log, Info("Starting pattern generation"))
            /\ UNCHANGED << err, radicand, dx_shoulder, outputs, history, printed, geo >>
       ELSE /\ prompt' = [prompt EXCEPT !.at = "exited"]
            /\ UNCHANGED << drafting, log, printed, geo >>

\* script.py 656-660: the script has just called get_user_measurements
PromptInit ==
    /\ prompt = Entered
    /\ log = << Info("Starting Polo Shirt Pattern Generator") >>
    /\ m = << >>
    /\ m0 = << >>
    /\ pc = "idle"
    /\ run = 0
    /\ history = << >>
    /\ err = "none"
    /\ radicand = 0
    /\ dx_shoulder = 0
    /\ back = NoPolygon
    /\ front = NoPolygon
    /\ sleeve = NoPolygon
    /\ collar = NoRect
    /\ placket = NoRect
    /\ interfacing = NoRect
    /\ half_back_neckline_length = 0
    /\ half_front_neckline_length = 0
    /\ stage = Undrafted
    /\ pages = << >>
    /\ drawn = << >>
    /\ printed = << >>
    /\ geo = NoCurve

PromptNext ==
    \/ EnterSize
    \/ Customize
    \/ Confirm
    \/ Edit
    \/ EndOfInput
    \/ MainDispatch

PromptSpec == PromptInit /\ [][PromptNext]_vars

\* get_user_measurements has returned
Returned == prompt.at \in { "returned", "drafting", "exited" }

\* C13: whatever was typed at the prompts, a measurement set that
\* get_user_measurements returns has exactly the predefined keys of the chosen size,
\* every value greater than zero and no collar_length_calculated; and 'quit' at the
\* size prompt returns (None, None), after which nothing is drafted
C13_ReturnedMeasurementsValid ==
    /\ Returned /\ ~prompt.result.none =>
          /\ prompt.result.size \in SIZES
          /\ DOMAIN prompt.result.meas = DOMAIN PREDEFINED_MEASUREMENTS[prompt.result.size]
          /\ "collar_length_calculated" \notin DOMAIN prompt.result.meas
          /\ \A k \in DOMAIN prompt.result.meas : FloatGt(prompt.result.meas[k], 0)
    /\ Returned /\ prompt.why = "quit" =>
          /\ prompt.result = ReturnNone
          /\ pc = "idle"
          /\ prompt.at # "drafting"

(* ------------------------------------- the curve helpers on their own, script.py 34-86 *)
\* script.py 58-59: the derivative of the curve at t = i/n, times n; the unit normal
\* of 60-63 is the same for the derivative and for its multiple
tangent(p0, p1, p2, i, n) ==
    << 2 * (n - i) * (p1[1] - p0[1]) + 2 * i * (p2[1] - p1[1]),
       2 * (n - i) * (p1[2] - p0[2]) + 2 * i * (p2[2] - p1[2]) >>

\* the sample appended whether or not the curve has a tangent there
offset_sample_unguarded(p0, p1, p2, offset, i, n) ==
    LET xy == quadratic_bezier(p0, p1, p2, i, n)
        d == tangent(p0, p1, p2, i, n)
        normal == << -d[2], d[1] >>
        normal_length == Sqrt(normal[1] * normal[1] + normal[2] * normal[2])
    IN  IF normal_length > 0
        THEN << << xy[1] + RoundDiv(offset * normal[1], normal_length),
                   xy[2] + RoundDiv(offset * normal[2], normal_length) >> >>
        ELSE << xy >>

\* script.py 56-67: the body of the loop, giving the point it appends, if any
offset_sample(p0, p1, p2, offset, i, n) ==
    LET xy == quadratic_bezier(p0, p1, p2, i, n)
        d == tangent(p0, p1, p2, i, n)
        normal == << -d[2], d[1] >>
        normal_length == Sqrt(normal[1] * normal[1] + normal[2] * normal[2])
    IN  IF normal_length > 0
        THEN << << xy[1] + RoundDiv(offset * normal[1], normal_length),
                   xy[2] + RoundDiv(offset * normal[2], normal_length) >> >>
        ELSE << >>

\* script.py 56: for i in range(num_points + 1), from sample i on
RECURSIVE offset_points_from(_, _, _, _, _, _)
offset_points_from(p0, p1, p2, offset, i, n) ==
    IF i > n THEN << >>
    ELSE offset_sample(p0, p1, p2, offset, i, n)
         \o offset_points_from(p0, p1, p2, offset, i + 1, n)

\* the offset argument ignored in favour of the default seam allowance
offset_bezier_curve_default_offset(p0, p1, p2, offset, num_points) ==
    offset_points_from(p0, p1, p2, SEAM_OFFSET, 0, num_points)

\* script.py 52-71
offset_bezier_curve(p0, p1, p2, offset, num_points) ==
    offset_points_from(p0, p1, p2, offset, 0, num_points)

\* the control points and arguments the helpers are tried on
Coords == { H(100 * k) : k \in 0..MaxCoord }
ControlPoints == Coords \X Coords
Offsets == { 0, SEAM_OFFSET }

\* generate_bezier_points(p0, p1, p2, n)
GenerateBezierPoints ==
    /\ geo.at = "args"
    /\ geo' = [geo EXCEPT !.at = "sampled",
                          !.points = generate_bezier_points(geo.p0, geo.p1, geo.p2, geo.n)]
    /\ UNCHANGED << drafting, log, printed, prompt >>

\* offset_bezier_curve(p0, p1, p2, offset, n)
OffsetBezierCurve ==
    /\ geo.at = "sampled"
    /\ geo' = [geo EXCEPT !.at = "offset",
                          !.offset_points =
                              offset_bezier_curve(geo.p0, geo.p1, geo.p2, geo.offset, geo.n)]
    /\ UNCHANGED << drafting, log, printed, prompt >>

\* draw_straight_seam_allowance(ax, p0, p1): the line it plots, if any
DrawStraightSeamAllowance ==
    /\ geo.at = "offset"
    /\ geo' = [geo EXCEPT !.at = "drawn",
                          !.seam = draw_straight_seam_allowance(geo.p0, geo.p1, SEAM_OFFSET)]
    /\ UNCHANGED << drafting, log, printed, prompt >>

CurveInit ==
    /\ geo \in [ at : {"args"}, p0 : ControlPoints, p1 : ControlPoints, p2 : ControlPoints,
                 n : 1..MaxSamples, offset : Offsets,
                 points : {<< >>}, offset_points : {<< >>}, seam : {<< >>} ]
    /\ prompt = NoPrompt
    /\ log = << >>
    /\ m = << >>
    /\ m0 = << >>
    /\ pc = "idle"
    /\ run = 0
    /\ history = << >>
    /\ err = "none"
    /\ radicand = 0
    /\ dx_shoulder = 0
    /\ back = NoPolygon
    /\ front = NoPolygon
    /\ sleeve = NoPolygon
    /\ collar = NoRect
    /\ placket = NoRect
    /\ interfacing = NoRect
    /\ half_back_neckline_length = 0
    /\ half_front_neckline_length = 0
    /\ stage = Undrafted
    /\ pages = << >>
    /\ drawn = << >>
    /\ printed = << >>

CurveNext ==
    \/ GenerateBezierPoints
    \/ OffsetBezierCurve
    \/ DrawStraightSeamAllowance

CurveSpec == CurveInit /\ [][CurveNext]_vars

\* C14: the curve starts at p0 and ends at p2 exactly, and sampling it with n
\* intervals gives n + 1 points of which the first is p0 and the last is p2
C14_BezierEndpoints ==
    geo.at \in { "sampled", "offset", "drawn" } =>
        /\ quadratic_bezier(geo.p0, geo.p1, geo.p2, 0, geo.n) = geo.p0
        /\ quadratic_bezier(geo.p0, geo.p1, geo.p2, geo.n, geo.n) = geo.p2
        /\ Len(geo.points) = geo.n + 1
        /\ geo.points[1] = geo.p0
        /\ geo.points[geo.n + 1] = geo.p2

\* a curve that bends, sampled at more than its end points
C14_Witness ==
    /\ geo.at = "sampled"
    /\ geo.n > 1
    /\ geo.p0 # geo.p2
    /\ geo.p1 \notin { geo.p0, geo.p2 }
    /\ Len(geo.points) = geo.n + 1

\* the curve has no tangent at sample i
ZeroTangent(i) ==
    /\ (geo.n - i) * (geo.p1[1] - geo.p0[1]) + i * (geo.p2[1] - geo.p1[1]) = 0
    /\ (geo.n - i) * (geo.p1[2] - geo.p0[2]) + i * (geo.p2[2] - geo.p1[2]) = 0

ZeroTangents == { i \in 0..geo.n : ZeroTangent(i) }

\* C15: when the curve has a tangent at every sample, offsetting it by zero gives
\* the same sequence of points as sampling it
C15_ZeroOffsetIsSampling ==
    geo.at \in { "offset", "drawn" } /\ geo.offset = 0 /\ ZeroTangents = {} =>
        geo.offset_points = geo.points

\* a bending curve with a tangent everywhere, offset by zero
C15_Witness ==
    /\ geo.at = "offset"
    /\ geo.offset = 0
    /\ ZeroTangents = {}
    /\ geo.n > 1
    /\ geo.p1 \notin { geo.p0, geo.p2 }
    /\ Len(geo.offset_points) = geo.n + 1
    /\ geo.offset_points[2] # geo.p0

\* C16: offset_bezier_curve returns one point for each sample where the curve has a
\* tangent and none for the others, so n + 1 less the number of samples without a
\* tangent, possibly none at all; draw_straight_seam_allowance on an edge of
\* length zero plots nothing; both return normally
C16_DegeneracySkipped ==
    /\ geo.at \in { "offset", "drawn" } =>
           Len(geo.offset_points) = geo.n + 1 - Cardinality(ZeroTangents)
    /\ geo.at = "drawn" =>
           /\ geo.p0 = geo.p1 => geo.seam = << >>
           /\ geo.p0 # geo.p1 => Len(geo.seam) = 1

\* a curve folding back on itself has lost exactly its middle sample, another has
\* lost them all, and an edge of length zero got no seam line
C16_Witness ==
    /\ geo.at = "drawn"
    /\ geo.p0 = geo.p1
    /\ geo.seam = << >>
    /\ ZeroTangents # {}
    /\ \/ geo.offset_points = << >>
       \/ Len(geo.offset_points) = geo.n

(* --------------------------------------------------- the clamp's boundary *)
\* the step that runs script.py 326-328 to the end
ClampStep == pc = "clamp" /\ pc' = "back_boundary"

\* the shoulder-tip X-offset of line 328 for the slope the step leaves behind
OffsetFromSlope == dx_shoulder' = Sqrt(Max(0, m.shoulder_width * m.shoulder_width
                                                - m'.shoulder_slope * m'.shoulder_slope))

\* C17 as stated: a slope at or above the width, equal to it included, is forced to
\* 98% of the width before the X-offset is computed; a slope below it is unchanged
C17_ClampedAtOrAboveWidth ==
    [][ClampStep =>
          /\ OffsetFromSlope
          /\ m.shoulder_slope >= m.shoulder_width =>
                 m'.shoulder_slope = Times(m.shoulder_width, 98, 100)
          /\ m.shoulder_slope < m.shoulder_width =>
                 m'.shoulder_slope = m.shoulder_slope]_vars

\* C17 amended: a slope above the width is forced to 98% of the width before the
\* X-offset is computed; a slope at or below the width, equal to it included, is
\* used unchanged
C17_ClampedAboveWidth ==
    [][ClampStep =>
          /\ OffsetFromSlope
          /\ m.shoulder_slope > m.shoulder_width =>
                 m'.shoulder_slope = Times(m.shoulder_width, 98, 100)
          /\ m.shoulder_slope <= m.shoulder_width =>
                 m'.shoulder_slope = m.shoulder_slope]_vars

\* a slope equal to the width went through the clamp untouched
C17_Witness ==
    /\ pc = "back_boundary"
    /\ run = 1
    /\ m0.shoulder_slope = m0.shoulder_width
    /\ m.shoulder_slope = m0.shoulder_width
    /\ dx_shoulder = 0

(* ------------------------------------------------------ the placket buttons *)
\* the piece handed to draw_pattern_piece_with_details under a title
Drawn(title) == CHOOSE i \in 1..Len(drawn) : drawn[i].title = title

ButtonsOn(title) == SelectSeq(drawn[Drawn(title)].patches, LAMBDA q : q.kind = "Circle")

PlacketsDrawn ==
    { "7. Placket (Button Side)", "8. Placket (Buttonhole Side)" } \subseteq DrawnTitles

\* three markers on the vertical centre line, the k-th one k quarters of the length
\* above the bottom edge
EvenlySpaced(bs) ==
    /\ Len(bs) = num_buttons
    /\ \A k \in 1..Len(bs) :
          /\ bs[k].geom[1] = base_offset_x + RoundDiv(m.placket_width, 2)
          /\ bs[k].geom[2] = base_offset_y + RoundDiv(k * m.placket_length, num_buttons + 1)

\* C18 as stated: for every positive placket width and length the button side
\* carries the three evenly spaced, centred button markers and the buttonhole side
\* carries none
C18_ButtonsOnEveryPlacket ==
    PlacketsDrawn /\ m.placket_width > 0 /\ m.placket_length > 0 =>
        /\ EvenlySpaced(ButtonsOn("7. Placket (Button Side)"))
        /\ ButtonsOn("8. Placket (Buttonhole Side)") = << >>

\* C18 amended: a placket longer than 1 in and wider than 0.2 in carries the three
\* evenly spaced, centred button markers on its button side; a placket that is not
\* carries none there; the buttonhole side never carries any
C18_ButtonsOnLargeEnoughPlacket ==
    PlacketsDrawn =>
        /\ m.placket_length > H(100) /\ m.placket_width > H(20) =>
               EvenlySpaced(ButtonsOn("7. Placket (Button Side)"))
        /\ ~(m.placket_length > H(100) /\ m.placket_width > H(20)) =>
               ButtonsOn("7. Placket (Button Side)") = << >>
        /\ ButtonsOn("8. Placket (Buttonhole Side)") = << >>

\* a placket above both thresholds drawn with its three buttons on the button side
\* and none on the buttonhole side
C18_Witness ==
    /\ PlacketsDrawn
    /\ m.placket_length > H(100)
    /\ m.placket_width > H(20)
    /\ Len(ButtonsOn("7. Placket (Button Side)")) = num_buttons
    /\ Len(drawn[Drawn("8. Placket (Buttonhole Side)")].patches) = 1

(* ------------------------------------------------- the printed cuff *)
\* the width of the cuff edge of the sleeve as drafted
DraftedCuffWidth == sleeve.pts[2][1] - sleeve.pts[1][1]

\* C19: once generate_pattern_visuals and output_product_details have run on the
\* same measurement set, the cuff circumference printed is twice the cuff width of
\* the drafted sleeve, in centimetres, also when the cuff was clamped to the bicep
C19_PrintedCuffIsDraftedCuff ==
    pc = "complete" => printed.cuff = CmTenths(2 * DraftedCuffWidth)

============================================================================
